---- MODULE Spec2Model ----
(***************************************************************************)
(* Model of src/handle-request.js (alexia): the request dispatcher of a    *)
(* voice skill.  One session is followed over several turns; each turn is  *)
(* one call of module.exports(app, data, handlers, done).                  *)
(*                                                                         *)
(* JavaScript values: an absent or undefined scalar is the string Undef,   *)
(* an absent object is the record NoObject.                                *)
(***************************************************************************)
EXTENDS Naturals, Sequences, FiniteSets, TLC

\* ---------------------------------------------------------------- bounds
MaxActions == 1     \* longest app.actions list of a session with every kind of handler
MaxPolicy  == 2     \* longest app.actions list of a session with plain handlers
MaxArity   == 4     \* largest declared parameter count of a handler
MaxCalls   == 2     \* most times a handler invokes its completion callback

\* ------------------------------------------------------------ JS values
Undef    == "undefined"
NoObject == [undefined |-> TRUE]

Start == "@start"
Star  == "*"

\* names registered in app.intents, and a name that is not
IntentNames  == {"Yes", "No"}
UnknownNames == {"Other"}

RequestTypes == {"LaunchRequest", "IntentRequest", "SessionEndedRequest"}
OtherTypes   == {"AudioPlayer.PlaybackStarted"}

AppIds == {"id1", "id2"}

\* ------------------------------------------------------ session attributes
\* an attributes object holds previousIntent and one application key `k`
AttrsSet == [previousIntent : {Undef, Start} \cup IntentNames, k : {Undef, "v"}]
EmptyAttrs == [previousIntent |-> Undef, k |-> Undef]
StartAttrs == [previousIntent |-> Start, k |-> Undef]

\* ------------------------------------------------------------------- app
\* an action: `if` is "none" when the action declares no predicate
ActionSet ==
    [from : {Start, Star} \cup IntentNames,
     to   : {Star} \cup IntentNames,
     if   : {"none", "if"},
     fail : BOOLEAN]

\* fail is only ever read after `if` returned false
UsefulActions == {a \in ActionSet : a.if = "none" => ~a.fail}

RECURSIVE SeqsUpTo(_, _)
SeqsUpTo(S, n) ==
    IF n = 0 THEN {<<>>}
    ELSE LET shorter == SeqsUpTo(S, n - 1)
         IN  shorter \cup {Append(s, x) : s \in {t \in shorter : Len(t) = n - 1}, x \in S}

\* app.options: absent, or {ids, version} with ids possibly absent or empty
OptionsSet ==
    {NoObject,
     [hasIds |-> FALSE, ids |-> {}, version |-> "1.0"],
     [hasIds |-> TRUE,  ids |-> {}, version |-> Undef],
     [hasIds |-> TRUE,  ids |-> {"id1"}, version |-> "1.0"]}

\* the actions of the sessions that see every kind of request and handler:
\* the edges out of "@start" and out of any intent, into "Yes" and into any
SessionActions ==
    {a \in UsefulActions : a.from \in {Start, Star} /\ a.to \in {"Yes", Star}}

\* the option variants are explored with the empty action list; the apps with
\* actions restrict the application ids
Apps ==
    {a \in [actions : SeqsUpTo(SessionActions, MaxActions), options : OptionsSet] :
        a.actions # <<>> => (a.options # NoObject /\ a.options.ids # {})}

\* the actions of the sessions of plain intent requests: also the edges out
\* of "Yes"
PolicyActions ==
    {a \in UsefulActions : a.from \in {Start, "Yes", Star} /\ a.to \in {"Yes", Star}}

\* applications with longer action lists, and no options
PolicyApps == [actions : SeqsUpTo(PolicyActions, MaxPolicy), options : {NoObject}]

\* ------------------------------------------------------------- requests
\* slots of an IntentRequest: a sequence of {name, value}
SlotLists == {<<>>, <<[name |-> "city", value |-> "Oslo"]>>}
NoSlots   == <<>>

\* attributes a client may send that no response of this session produced
ForeignAttrs == [previousIntent |-> "No", k |-> "v"]

\* ------------------------------------------------------------- handlers
\* the value a handler produces.  Handlers keep their side of the calling
\* convention: the value is a string shorthand or an options object
TextOptions(t) ==
    [kind |-> "string", text |-> t, ssml |-> Undef, attrs |-> NoObject,
     end |-> Undef, reprompt |-> Undef, card |-> NoObject]

ObjectOptions(t, s, a, e, r, c) ==
    [kind |-> "object", text |-> t, ssml |-> s, attrs |-> a,
     end |-> e, reprompt |-> r, card |-> c]

HandlerOptions ==
    {TextOptions("Hello"),
     ObjectOptions("Hi", Undef, NoObject, "false", Undef, NoObject),
     ObjectOptions("<speak>Hi</speak>", "true", [previousIntent |-> "No", k |-> "w"],
                   Undef, "Again?", [type |-> Undef, text |-> "Body"])}

\* a handler function: its declared parameter count (Function.length), the
\* number of times it invokes the completion callback it was declared to
\* take as its last parameter, and the options value it produces
\* the handlers declaring 2 and 4 parameters produce every options value, the
\* others the plain text
HandlerSet ==
    {h \in [arity : 0..MaxArity, calls : 0..MaxCalls, opts : HandlerOptions] :
        /\ h.arity < 3 => h.calls = 0
        /\ h.opts # TextOptions("Hello") => (h.arity \in {2, 4} /\ h.calls <= 1)}

\* the two handlers of the examples: (slots, attrs) => "Hello" and
\* (slots, attrs, data, done) => done({text: "Hi", end: false})
PlainHandlers ==
    {[arity |-> 2, calls |-> 0, opts |-> TextOptions("Hello")],
     [arity |-> 4, calls |-> 1,
      opts |-> ObjectOptions("Hi", Undef, NoObject, "false", Undef, NoObject)]}

\* --------------------------------------------------- response synthesis
\* JavaScript truthiness of the scalar encodings used here
Falsy(v) == v \in {Undef, "false", "0", "null", ""}

\* variant: `ssml === undefined` for `!ssml`
createOutputSpeechObjectDefined(text, ssml) ==
    IF ssml = Undef
    THEN [type |-> "PlainText", text |-> text, ssml |-> Undef]
    ELSE [type |-> "SSML", text |-> Undef, ssml |-> text]

createOutputSpeechObject(text, ssml) ==
    IF Falsy(ssml)
    THEN [type |-> "PlainText", text |-> text, ssml |-> Undef]
    ELSE [type |-> "SSML", text |-> Undef, ssml |-> text]

\* the card object after createCardObject (it is modified in place)
createCardObject(card) ==
    IF card # NoObject
    THEN IF Falsy(card.type) THEN [card EXCEPT !.type = "Simple"] ELSE card
    ELSE NoObject

\* variant: `options.end || true`
getShouldEndSessionTruthy(options) ==
    IF options = NoObject \/ Falsy(options.end) THEN "true" ELSE options.end

getShouldEndSession(options) ==
    IF options = NoObject \/ options.end = Undef THEN "true" ELSE options.end

\* typeof options === 'string': the shorthand becomes {text: options}
NormalizeOptions(options) ==
    IF options.kind = "string"
    THEN ObjectOptions(options.text, Undef, NoObject, Undef, Undef, NoObject)
    ELSE options

\* variant: supplied attributes are returned as the handler gave them
createResponseKeepsSupplied(options, slots, attrs, app_) ==
    LET o == NormalizeOptions(options)
    IN  [version |-> IF app_.options # NoObject THEN app_.options.version ELSE "0.0.1",
         sessionAttributes |-> IF o.attrs # NoObject THEN o.attrs ELSE attrs,
         outputSpeech |-> createOutputSpeechObject(o.text, o.ssml),
         shouldEndSession |-> getShouldEndSession(o),
         reprompt |-> IF ~Falsy(o.reprompt)
                      THEN createOutputSpeechObject(o.reprompt, o.ssml)
                      ELSE NoObject,
         card |-> createCardObject(o.card)]

\* variant: supplied attributes are laid over the carried ones
createResponseMerges(options, slots, attrs, app_) ==
    LET o == NormalizeOptions(options)
        sessionAttributes ==
            IF o.attrs # NoObject
            THEN [previousIntent |-> attrs.previousIntent,
                  k |-> IF o.attrs.k # Undef THEN o.attrs.k ELSE attrs.k]
            ELSE attrs
    IN  [version |-> IF app_.options # NoObject THEN app_.options.version ELSE "0.0.1",
         sessionAttributes |-> sessionAttributes,
         outputSpeech |-> createOutputSpeechObject(o.text, o.ssml),
         shouldEndSession |-> getShouldEndSession(o),
         reprompt |-> IF ~Falsy(o.reprompt)
                      THEN createOutputSpeechObject(o.reprompt, o.ssml)
                      ELSE NoObject,
         card |-> createCardObject(o.card)]

createResponse(options, slots, attrs, app_) ==
    LET o == NormalizeOptions(options)
        sessionAttributes ==
            IF o.attrs # NoObject
            THEN [o.attrs EXCEPT !.previousIntent = attrs.previousIntent]
            ELSE attrs
    IN  [version |-> IF app_.options # NoObject THEN app_.options.version ELSE "0.0.1",
         sessionAttributes |-> sessionAttributes,
         outputSpeech |-> createOutputSpeechObject(o.text, o.ssml),
         shouldEndSession |-> getShouldEndSession(o),
         reprompt |-> IF ~Falsy(o.reprompt)
                      THEN createOutputSpeechObject(o.reprompt, o.ssml)
                      ELSE NoObject,
         card |-> createCardObject(o.card)]

\* the handler's options object after createResponse: line 188 writes
\* previousIntent into options.attrs and line 154 writes the default type
\* into options.card; a string shorthand is rebound, never written to
createResponseWrites(options, attrs) ==
    IF options.kind = "string" THEN options
    ELSE [options EXCEPT
            !.attrs = IF @ # NoObject
                      THEN [@ EXCEPT !.previousIntent = attrs.previousIntent]
                      ELSE @,
            !.card = createCardObject(@)]

\* ------------------------------------------------------ slot normalisation
\* _.transform(slots, (result, value) => result[value.name] = value.value, {}):
\* the set of name/value pairs, a later entry replacing an earlier one
RECURSIVE TransformSlots(_)
TransformSlots(slots) ==
    IF slots = <<>> THEN {}
    ELSE LET last == slots[Len(slots)]
             rest == TransformSlots(SubSeq(slots, 1, Len(slots) - 1))
         IN  {p \in rest : p[1] # last.name} \cup {<<last.name, last.value>>}

\* ------------------------------------------------------ transition policy
\* _.find(app.actions, {from: f, to: t}): index of the first match, 0 if none
FindAction(actions, f, t) ==
    LET hits == {i \in 1..Len(actions) : actions[i].from = f /\ actions[i].to = t}
    IN  IF hits = {} THEN 0 ELSE CHOOSE i \in hits : \A j \in hits : i <= j

\* variant: the wildcard-source lookup comes before the wildcard-target one
SelectActionSourceFirst(actions, previousIntent, name) ==
    LET exact == FindAction(actions, previousIntent, name)
        toAny == FindAction(actions, previousIntent, Star)
        fromAny == FindAction(actions, Star, name)
    IN  IF exact # 0 THEN exact
        ELSE IF fromAny # 0 THEN fromAny
        ELSE toAny

\* the three lookups of checkActionsAndHandle, in order
SelectAction(actions, previousIntent, name) ==
    LET exact == FindAction(actions, previousIntent, name)
        toAny == FindAction(actions, previousIntent, Star)
        fromAny == FindAction(actions, Star, name)
    IN  IF exact # 0 THEN exact
        ELSE IF toAny # 0 THEN toAny
        ELSE fromAny

\* ----------------------------------------------------------------- state
VARIABLES
    app,        \* the application object, fixed for the session
    session,    \* the session attributes the platform holds between turns
    pc,         \* "idle", "responded", "suspended" (async handler pending), "threw"
    req,        \* the request of the current turn (data), NoObject between turns
    attrs,      \* data.session.attributes of the current turn
    before,     \* attrs.previousIntent after the session bootstrap of the turn
    invoked,    \* handler calls of the current turn, in order, each with the attrs it was passed
    selected,   \* index of the action the lookup of the current turn found, 0 if none
    ifEvals,    \* the `if` predicates run in the current turn: action index, attrs passed, result
    pending,    \* what the suspended async handler will still deliver
    doneCount,  \* number of times `done` was invoked in the current turn
    response,   \* the last value passed to `done` in the current turn
    err,        \* the error thrown by the current turn, Undef if none
    lastRan,    \* last intent whose own handler was invoked since the session started
    carried,    \* every turn since the session started got the previous response's attributes
    produced    \* the options object handed to createResponse in the current turn, as it is now

vars == <<app, session, pc, req, attrs, before, invoked, selected, ifEvals, pending, doneCount,
          response, err, lastRan, carried, produced>>

NoPending == [opts |-> NoObject, slots |-> {}, remaining |-> 0]

\* the handlers a dispatch can select
OnStart           == [kind |-> "onStart", intent |-> Undef, action |-> 0]
OnEnd             == [kind |-> "onEnd", intent |-> Undef, action |-> 0]
DefaultActionFail == [kind |-> "defaultActionFail", intent |-> Undef, action |-> 0]
IntentHandler(n)  == [kind |-> "intent", intent |-> n, action |-> 0]
ActionFail(i)     == [kind |-> "fail", intent |-> Undef, action |-> i]

\* arguments of the two calling conventions of callHandler
SyncArgs  == <<"slots", "attrs", "data">>
AsyncArgs == <<"slots", "attrs", "data", "optionsReady">>

\* the argument bound to the last parameter a function of that arity declares
LastParam(arity, args) ==
    IF arity = 0 THEN "none"
    ELSE IF arity <= Len(args) THEN args[arity] ELSE Undef

InitOf(apps) ==
    /\ app \in apps
    /\ session = NoObject
    /\ pc = "idle"
    /\ req = NoObject
    /\ attrs = NoObject
    /\ before = Undef
    /\ invoked = <<>>
    /\ selected = 0
    /\ ifEvals = <<>>
    /\ pending = NoPending
    /\ doneCount = 0
    /\ response = NoObject
    /\ err = Undef
    /\ lastRan = Undef
    /\ carried = FALSE
    /\ produced = NoObject

Init == InitOf(Apps)

PolicyInit == InitOf(PolicyApps)

\* ------------------------------------------------------------ the request
\* the hosting layer calls dispatch between turns
CanDispatch == pc = "idle"

\* session.attributes on the wire: in a running session none or those of the
\* previous response, with a new session none or stale ones
InboundNow(new) == IF new THEN {NoObject, ForeignAttrs} ELSE {NoObject, session}

\* variant: `!ids.indexOf(appId)` for `ids.indexOf(appId) === -1`
InvalidApplicationIdFirstOnly(options, appId) ==
    /\ options # NoObject
    /\ options.hasIds
    /\ Cardinality(options.ids) > 0
    /\ appId \in options.ids

\* line 19: application ids are specified and do not contain the request's id
InvalidApplicationId(options, appId) ==
    /\ options # NoObject
    /\ options.hasIds
    /\ Cardinality(options.ids) > 0
    /\ appId \notin options.ids

Data(types, intents, slots) ==
    {d \in [appId : AppIds, new : BOOLEAN, inbound : {NoObject, ForeignAttrs, session},
             type : types, intent : intents, slots : slots] :
        d.inbound \in InboundNow(d.new)}

\* the requests of every type: only an IntentRequest has an intent
AnyData ==
    Data({"LaunchRequest", "SessionEndedRequest"} \cup OtherTypes, {Undef}, {NoSlots})
        \cup Data({"IntentRequest"}, IntentNames \cup UnknownNames, SlotLists)

\* a request the application id check lets through; the id is looked at
\* only when the application restricts the ids
ValidData(types, intents, slots) ==
    {d \in Data(types, intents, slots) :
        /\ ~InvalidApplicationId(app.options, d.appId)
        /\ (d.appId # "id1" =>
               (app.options # NoObject /\ app.options.hasIds /\ app.options.ids # {}))}

\* variant: a new session keeps the attributes on the wire
BootstrapKeepsInbound(d) ==
    IF d.inbound = NoObject
    THEN (IF d.new THEN StartAttrs ELSE EmptyAttrs)
    ELSE IF d.new THEN [d.inbound EXCEPT !.previousIntent = Start]
    ELSE d.inbound

\* lines 24-30: the session attributes the dispatch works on
Bootstrap(d) ==
    IF d.new THEN StartAttrs
    ELSE IF d.inbound = NoObject THEN EmptyAttrs
    ELSE d.inbound

\* the turn continues the chain when it is a new session, or the previous
\* turn responded and its attributes came back unchanged
Carries(d) ==
    \/ d.new
    \/ /\ carried
       /\ d.inbound = session

\* a dispatch that throws before any handler: nothing but the error is left
Throw(d, e, a) ==
    /\ pc' = "threw"
    /\ req' = d
    /\ attrs' = a
    /\ before' = IF a = NoObject THEN Undef ELSE a.previousIntent
    /\ invoked' = <<>>
    /\ selected' = 0
    /\ ifEvals' = <<>>
    /\ pending' = NoPending
    /\ doneCount' = 0
    /\ response' = NoObject
    /\ err' = e
    /\ lastRan' = Undef
    /\ carried' = FALSE
    /\ produced' = NoObject
    /\ UNCHANGED <<app, session>>

\* variant: every handler is called synchronously, whatever it declares
callHandlerAlwaysSync(id, h, rawSlots, a) ==
    LET slots == TransformSlots(rawSlots)
        call  == [handler |-> id, arity |-> h.arity, args |-> SyncArgs, slots |-> slots,
                  calls |-> h.calls, opts |-> h.opts, attrs |-> a]
    IN  /\ attrs' = a
        /\ invoked' = <<call>>
        /\ pc' = "responded"
        /\ pending' = NoPending
        /\ doneCount' = 1
        /\ response' = createResponse(h.opts, slots, a, app)
        /\ produced' = createResponseWrites(h.opts, a)
        /\ err' = Undef

\* variant: the return value of a synchronous handler is dropped
callHandlerDropsSync(id, h, rawSlots, a) ==
    LET slots == TransformSlots(rawSlots)
        sync  == h.arity < 3
        args  == IF sync THEN SyncArgs ELSE AsyncArgs
        call  == [handler |-> id, arity |-> h.arity, args |-> args, slots |-> slots,
                  calls |-> h.calls, opts |-> h.opts, attrs |-> a]
        last  == LastParam(h.arity, args)
    IN  /\ attrs' = a
        /\ invoked' = <<call>>
        /\ doneCount' = 0
        /\ response' = NoObject
        /\ produced' = NoObject
        /\ IF ~sync /\ h.calls > 0 /\ last # "optionsReady"
           THEN pc' = "threw" /\ pending' = NoPending /\ err' = "TypeError"
           ELSE /\ pc' = "suspended"
                /\ pending' = [opts |-> h.opts, slots |-> slots,
                               remaining |-> IF sync THEN 0 ELSE h.calls]
                /\ err' = Undef

\* variant: the `else` of line 81 is missing, a synchronous handler is called
\* a second time with the callback
callHandlerTwice(id, h, rawSlots, a) ==
    LET slots == TransformSlots(rawSlots)
        sync  == h.arity < 3
        args  == IF sync THEN SyncArgs ELSE AsyncArgs
        call  == [handler |-> id, arity |-> h.arity, args |-> args, slots |-> slots,
                  calls |-> h.calls, opts |-> h.opts, attrs |-> a]
        last  == LastParam(h.arity, args)
    IN  /\ attrs' = a
        /\ invoked' = IF sync THEN <<call, [call EXCEPT !.args = AsyncArgs]>> ELSE <<call>>
        /\ IF sync
           THEN /\ pc' = "responded"
                /\ pending' = NoPending
                /\ doneCount' = 1
                /\ response' = createResponse(h.opts, slots, a, app)
                /\ produced' = createResponseWrites(h.opts, a)
                /\ err' = Undef
           ELSE IF h.calls > 0 /\ last # "optionsReady"
           THEN /\ pc' = "threw"
                /\ pending' = NoPending
                /\ doneCount' = 0
                /\ response' = NoObject
                /\ produced' = NoObject
                /\ err' = "TypeError"
           ELSE /\ pc' = "suspended"
                /\ pending' = [opts |-> h.opts, slots |-> slots, remaining |-> h.calls]
                /\ doneCount' = 0
                /\ response' = NoObject
                /\ produced' = NoObject
                /\ err' = Undef

\* callHandler (lines 66-84) with the handler function h selected as `id`
callHandler(id, h, rawSlots, a) ==
    LET slots == TransformSlots(rawSlots)
        sync  == h.arity < 3
        args  == IF sync THEN SyncArgs ELSE AsyncArgs
        call  == [handler |-> id, arity |-> h.arity, args |-> args, slots |-> slots,
                  calls |-> h.calls, opts |-> h.opts, attrs |-> a]
        last  == LastParam(h.arity, args)
    IN  /\ attrs' = a
        /\ invoked' = <<call>>
        /\ IF sync
           THEN \* optionsReady(handler(slots, attrs, data))
                /\ pc' = "responded"
                /\ pending' = NoPending
                /\ doneCount' = 1
                /\ response' = createResponse(h.opts, slots, a, app)
                /\ produced' = createResponseWrites(h.opts, a)
                /\ err' = Undef
           ELSE IF h.calls > 0 /\ last # "optionsReady"
           THEN \* the handler calls a value that is not a function
                /\ pc' = "threw"
                /\ pending' = NoPending
                /\ doneCount' = 0
                /\ response' = NoObject
                /\ produced' = NoObject
                /\ err' = "TypeError"
           ELSE \* handler(slots, attrs, data, optionsReady)
                /\ pc' = "suspended"
                /\ pending' = [opts |-> h.opts, slots |-> slots, remaining |-> h.calls]
                /\ doneCount' = 0
                /\ response' = NoObject
                /\ produced' = NoObject
                /\ err' = Undef

\* variant: previousIntent is set as soon as an action is found
checkActionsAndHandleEager(actions, name, a, ifResult) ==
    LET action == SelectAction(actions, a.previousIntent, name)
        moved == [a EXCEPT !.previousIntent = name]
        ran(b) == <<[action |-> action, result |-> b, attrs |-> moved]>>
        accept(evals) ==
            [handler |-> IntentHandler(name), attrs |-> moved,
             action |-> action, ifEvals |-> evals]
        reject(handler, at, evals) ==
            [handler |-> handler, attrs |-> at, action |-> action, ifEvals |-> evals]
    IN  IF Len(actions) = 0
        THEN [accept(<<>>) EXCEPT !.action = 0]
        ELSE IF action # 0
        THEN IF actions[action].if = "none" THEN accept(<<>>)
             ELSE IF ifResult THEN accept(ran(TRUE))
             ELSE IF actions[action].fail THEN reject(ActionFail(action), moved, ran(FALSE))
             ELSE reject(DefaultActionFail, moved, ran(FALSE))
        ELSE reject(DefaultActionFail, a, <<>>)

\* variant: the lookup runs on an empty action list too
checkActionsAndHandleNoShortcut(actions, name, a, ifResult) ==
    LET action == SelectAction(actions, a.previousIntent, name)
        ran(b) == <<[action |-> action, result |-> b, attrs |-> a]>>
        accept(evals) ==
            [handler |-> IntentHandler(name), attrs |-> [a EXCEPT !.previousIntent = name],
             action |-> action, ifEvals |-> evals]
        reject(handler, evals) ==
            [handler |-> handler, attrs |-> a, action |-> action, ifEvals |-> evals]
    IN  IF action # 0
        THEN IF actions[action].if = "none" THEN accept(<<>>)
             ELSE IF ifResult THEN accept(ran(TRUE))
             ELSE IF actions[action].fail THEN reject(ActionFail(action), ran(FALSE))
             ELSE reject(DefaultActionFail, ran(FALSE))
        ELSE reject(DefaultActionFail, <<>>)

\* variant: an intent no action matches is let through
checkActionsAndHandleOpen(actions, name, a, ifResult) ==
    LET action == SelectAction(actions, a.previousIntent, name)
        ran(b) == <<[action |-> action, result |-> b, attrs |-> a]>>
        accept(evals) ==
            [handler |-> IntentHandler(name), attrs |-> [a EXCEPT !.previousIntent = name],
             action |-> action, ifEvals |-> evals]
        reject(handler, evals) ==
            [handler |-> handler, attrs |-> a, action |-> action, ifEvals |-> evals]
    IN  IF action # 0
        THEN IF actions[action].if = "none" THEN accept(<<>>)
             ELSE IF ifResult THEN accept(ran(TRUE))
             ELSE IF actions[action].fail THEN reject(ActionFail(action), ran(FALSE))
             ELSE reject(DefaultActionFail, ran(FALSE))
        ELSE accept(<<>>)

\* variant: when `if` returns false, another matching action without `if`
\* lets the intent through
checkActionsAndHandleFallsThrough(actions, name, a, ifResult) ==
    LET action == SelectAction(actions, a.previousIntent, name)
        ran(b) == <<[action |-> action, result |-> b, attrs |-> a]>>
        others == {i \in 1..Len(actions) :
                      /\ i # action
                      /\ actions[i].from \in {a.previousIntent, Star}
                      /\ actions[i].to \in {name, Star}
                      /\ actions[i].if = "none"}
        accept(evals) ==
            [handler |-> IntentHandler(name), attrs |-> [a EXCEPT !.previousIntent = name],
             action |-> action, ifEvals |-> evals]
        reject(handler, evals) ==
            [handler |-> handler, attrs |-> a, action |-> action, ifEvals |-> evals]
    IN  IF Len(actions) = 0
        THEN [accept(<<>>) EXCEPT !.action = 0]
        ELSE IF action # 0
        THEN IF actions[action].if = "none" THEN accept(<<>>)
             ELSE IF ifResult THEN accept(ran(TRUE))
             ELSE IF others # {} THEN accept(ran(FALSE))
             ELSE IF actions[action].fail THEN reject(ActionFail(action), ran(FALSE))
             ELSE reject(DefaultActionFail, ran(FALSE))
        ELSE reject(DefaultActionFail, <<>>)

\* variant: line 127 is missing, an intent accepted by an action leaves
\* previousIntent as it was
checkActionsAndHandleForgets(actions, name, a, ifResult) ==
    LET action == SelectAction(actions, a.previousIntent, name)
        ran(b) == <<[action |-> action, result |-> b, attrs |-> a]>>
        accept(evals) ==
            [handler |-> IntentHandler(name), attrs |-> a,
             action |-> action, ifEvals |-> evals]
        reject(handler, evals) ==
            [handler |-> handler, attrs |-> a, action |-> action, ifEvals |-> evals]
    IN  IF Len(actions) = 0
        THEN [handler |-> IntentHandler(name), attrs |-> [a EXCEPT !.previousIntent = name],
              action |-> 0, ifEvals |-> <<>>]
        ELSE IF action # 0
        THEN IF actions[action].if = "none" THEN accept(<<>>)
             ELSE IF ifResult THEN accept(ran(TRUE))
             ELSE IF actions[action].fail THEN reject(ActionFail(action), ran(FALSE))
             ELSE reject(DefaultActionFail, ran(FALSE))
        ELSE reject(DefaultActionFail, <<>>)

\* checkActionsAndHandle (lines 102-143): the handler selected, the attributes
\* after the selection and the predicates evaluated; ifResult is what the
\* selected action's `if` returns
checkActionsAndHandle(actions, name, a, ifResult) ==
    LET action == SelectAction(actions, a.previousIntent, name)
        ran(b) == <<[action |-> action, result |-> b, attrs |-> a]>>
        accept(evals) ==
            [handler |-> IntentHandler(name), attrs |-> [a EXCEPT !.previousIntent = name],
             action |-> action, ifEvals |-> evals]
        reject(handler, evals) ==
            [handler |-> handler, attrs |-> a, action |-> action, ifEvals |-> evals]
    IN  IF Len(actions) = 0
        THEN [accept(<<>>) EXCEPT !.action = 0]
        ELSE IF action # 0
        THEN IF actions[action].if = "none" THEN accept(<<>>)
             ELSE IF ifResult THEN accept(ran(TRUE))
             ELSE IF actions[action].fail THEN reject(ActionFail(action), ran(FALSE))
             ELSE reject(DefaultActionFail, ran(FALSE))
        ELSE reject(DefaultActionFail, <<>>)

\* the last intent whose own handler was invoked, while the chain holds
Ran(d, handler) ==
    IF ~Carries(d) THEN Undef
    ELSE IF handler.kind = "intent" THEN handler.intent
    ELSE IF d.new THEN Start
    ELSE lastRan

\* ---------------------------------------------------------------- actions
\* lines 19-22: the application id is refused before anything else happens
RejectApplicationId ==
    /\ CanDispatch
    /\ \E d \in AnyData :
        /\ InvalidApplicationId(app.options, d.appId)
        /\ Throw(d, "ValidationError: application id", d.inbound)

\* variant: a launch always starts the conversation over
LaunchRequestResets ==
    /\ CanDispatch
    /\ \E d \in ValidData({"LaunchRequest"}, {Undef}, {NoSlots}), h \in HandlerSet :
        /\ req' = d
        /\ before' = Bootstrap(d).previousIntent
        /\ selected' = 0
        /\ ifEvals' = <<>>
        /\ callHandler(OnStart, h, NoSlots, [Bootstrap(d) EXCEPT !.previousIntent = Start])
        /\ lastRan' = Ran(d, OnStart)
        /\ carried' = Carries(d)
        /\ UNCHANGED <<app, session>>

\* lines 38-40
LaunchRequest ==
    /\ CanDispatch
    /\ \E d \in ValidData({"LaunchRequest"}, {Undef}, {NoSlots}), h \in HandlerSet :
        /\ req' = d
        /\ before' = Bootstrap(d).previousIntent
        /\ selected' = 0
        /\ ifEvals' = <<>>
        /\ callHandler(OnStart, h, NoSlots, Bootstrap(d))
        /\ lastRan' = Ran(d, OnStart)
        /\ carried' = Carries(d)
        /\ UNCHANGED <<app, session>>

\* lines 42-53, the intent is registered
IntentTurn(handlerSet, slotLists) ==
    /\ CanDispatch
    /\ \E d \in ValidData({"IntentRequest"}, IntentNames, slotLists), h \in handlerSet,
          ifResult \in BOOLEAN :
        LET a == Bootstrap(d)
            r == checkActionsAndHandle(app.actions, d.intent, a, ifResult)
        IN  /\ (r.ifEvals = <<>> => ifResult)   \* no predicate ran: nothing to choose
            /\ req' = d
            /\ before' = a.previousIntent
            /\ selected' = r.action
            /\ ifEvals' = r.ifEvals
            /\ callHandler(r.handler, h, d.slots, r.attrs)
            /\ lastRan' = Ran(d, r.handler)
            /\ carried' = Carries(d)
            /\ UNCHANGED <<app, session>>

IntentRequest == IntentTurn(HandlerSet, SlotLists)

\* the same, with the handlers of the examples and no slots
PlainIntentRequest == IntentTurn(PlainHandlers, {NoSlots})

\* variant: an unregistered intent is answered by defaultActionFail
NonexistentIntentFallsBack ==
    /\ CanDispatch
    /\ \E d \in ValidData({"IntentRequest"}, UnknownNames, SlotLists), h \in HandlerSet :
        /\ req' = d
        /\ before' = Bootstrap(d).previousIntent
        /\ selected' = 0
        /\ ifEvals' = <<>>
        /\ callHandler(DefaultActionFail, h, d.slots, Bootstrap(d))
        /\ lastRan' = Ran(d, DefaultActionFail)
        /\ carried' = Carries(d)
        /\ UNCHANGED <<app, session>>

\* lines 47-50: the intent is not in app.intents
NonexistentIntent ==
    /\ CanDispatch
    /\ \E d \in ValidData({"IntentRequest"}, UnknownNames, SlotLists) :
        /\ Throw(d, "ValidationError: nonexistent intent", Bootstrap(d))

\* lines 55-57
SessionEndedRequest ==
    /\ CanDispatch
    /\ \E d \in ValidData({"SessionEndedRequest"}, {Undef}, {NoSlots}), h \in HandlerSet :
        /\ req' = d
        /\ before' = Bootstrap(d).previousIntent
        /\ selected' = 0
        /\ ifEvals' = <<>>
        /\ callHandler(OnEnd, h, NoSlots, Bootstrap(d))
        /\ lastRan' = Ran(d, OnEnd)
        /\ carried' = Carries(d)
        /\ UNCHANGED <<app, session>>

\* lines 59-61
UnsupportedRequest ==
    /\ CanDispatch
    /\ \E d \in ValidData(OtherTypes, {Undef}, {NoSlots}) :
        /\ Throw(d, "ValidationError: unsupported request", Bootstrap(d))

\* lines 73-75: the async handler invokes its completion callback
optionsReady ==
    /\ pending.remaining > 0
    /\ pc' = "responded"
    /\ doneCount' = doneCount + 1
    /\ response' = createResponse(pending.opts, pending.slots, attrs, app)
    /\ produced' = createResponseWrites(pending.opts, attrs)
    /\ pending' = [pending EXCEPT !.remaining = @ - 1]
    /\ UNCHANGED <<app, session, req, attrs, before, invoked, ifEvals, err, lastRan,
                   carried, selected>>

\* the turn is over: the platform keeps the attributes of the response, if
\* there was one, and the next request can come
EndTurn ==
    /\ pc # "idle"
    /\ pending.remaining = 0
    /\ session' = IF pc = "responded" THEN response.sessionAttributes ELSE session
    /\ carried' = (carried /\ pc = "responded")
    /\ lastRan' = IF carried /\ pc = "responded" THEN lastRan ELSE Undef
    /\ pc' = "idle"
    /\ req' = NoObject
    /\ attrs' = NoObject
    /\ before' = Undef
    /\ invoked' = <<>>
    /\ selected' = 0
    /\ ifEvals' = <<>>
    /\ pending' = NoPending
    /\ doneCount' = 0
    /\ response' = NoObject
    /\ produced' = NoObject
    /\ err' = Undef
    /\ UNCHANGED app

Next ==
    \/ RejectApplicationId
    \/ LaunchRequest
    \/ IntentRequest
    \/ NonexistentIntent
    \/ SessionEndedRequest
    \/ UnsupportedRequest
    \/ optionsReady
    \/ EndTurn

Spec == Init /\ [][Next]_vars

\* an async handler that invokes its callback does so eventually
FairSpec == Spec /\ WF_vars(optionsReady)

\* sessions of intent requests against applications with longer action lists
PolicyNext ==
    \/ PlainIntentRequest
    \/ optionsReady
    \/ EndTurn

PolicySpec == PolicyInit /\ [][PolicyNext]_vars

\* ------------------------------------------------- response synthesis alone
\* the options values a handler can hand to its completion callback: the
\* string shorthand, and objects over every kind of value of each field
SynthOptions ==
    {TextOptions("Hello")} \cup
    {ObjectOptions("Hi", s, a, e, r, c) :
        s \in {Undef, "false", "", "true"},
        a \in {NoObject, EmptyAttrs, [previousIntent |-> "No", k |-> Undef],
               [previousIntent |-> Undef, k |-> "w"]},
        e \in {Undef, "true", "false", "0", "null", ""},
        r \in {Undef, "", "Again?"},
        c \in {NoObject, [type |-> Undef, text |-> "Body"],
               [type |-> "Standard", text |-> "Body"]}}

\* handlers.onEnd, declared with 4 parameters, was called with attributes a
\* and will call the callback it was given once, with o
SynthCall(o, a) ==
    [handler |-> OnEnd, arity |-> 4, args |-> AsyncArgs, slots |-> {}, calls |-> 1,
     opts |-> o, attrs |-> a]

\* a turn suspended in callHandler: the handler holds optionsReady
SynthInit ==
    \E o \in SynthOptions, a \in AttrsSet :
        /\ app \in [actions : {<<>>}, options : OptionsSet]
        /\ session = a
        /\ pc = "suspended"
        /\ req = [appId |-> "id1", new |-> FALSE, inbound |-> a,
                  type |-> "SessionEndedRequest", intent |-> Undef, slots |-> NoSlots]
        /\ attrs = a
        /\ before = a.previousIntent
        /\ invoked = <<SynthCall(o, a)>>
        /\ selected = 0
        /\ ifEvals = <<>>
        /\ pending = [opts |-> o, slots |-> {}, remaining |-> 1]
        /\ doneCount = 0
        /\ response = NoObject
        /\ err = Undef
        /\ lastRan = Undef
        /\ carried = FALSE
        /\ produced = NoObject

SynthNext == optionsReady

SynthSpec == SynthInit /\ [][SynthNext]_vars

\* ============================================================== properties
\* what the formulas below say about the turn in progress
InTurn       == req # NoObject
HandlerRan   == invoked # <<>>
TheCall      == invoked[1]
IsAsync      == HandlerRan /\ TheCall.arity >= 3
IsSync       == HandlerRan /\ TheCall.arity < 3
IdRefused    ==
    /\ InTurn
    /\ app.options # NoObject
    /\ app.options.hasIds
    /\ app.options.ids # {}
    /\ req.appId \notin app.options.ids
KnownIntentTurn ==
    InTurn /\ ~IdRefused /\ req.type = "IntentRequest" /\ req.intent \in IntentNames
NothingRan ==
    /\ pc = "threw"
    /\ invoked = <<>>
    /\ ifEvals = <<>>
    /\ doneCount = 0
    /\ response = NoObject

\* the last parameter the handler of the turn declares holds the callback
ReachesCallback ==
    /\ IsAsync
    /\ TheCall.arity <= Len(TheCall.args)
    /\ TheCall.args[TheCall.arity] = "optionsReady"

\* the handler of the turn invokes the completion callback exactly once: it
\* is synchronous, or it calls the callback it holds once
InvokesCallbackOnce == IsSync \/ (ReachesCallback /\ TheCall.calls = 1)

\* C1: for a request that passes validation and a handler that is synchronous,
\* or asynchronous and invokes its completion callback exactly once, `done` is
\* invoked eventually, never more than once, with the synthesized response.
C1_DoneExactlyOnce ==
    /\ [](InvokesCallbackOnce =>
            /\ doneCount <= 1
            /\ doneCount = 1 =>
                  response = createResponse(TheCall.opts, TheCall.slots, attrs, app))
    /\ (InvokesCallbackOnce ~> (InvokesCallbackOnce /\ doneCount = 1))

C1_Witness ==
    /\ IsAsync
    /\ InvokesCallbackOnce
    /\ pc = "responded"
    /\ doneCount = 1
    /\ response.shouldEndSession = "false"

\* C2: over turns of one session in which every response's sessionAttributes
\* come back in the next request, the previousIntent of every response is the
\* most recent intent whose own handler was invoked, "@start" if there is none
\* since the session started.
C2_PreviousIntentIsLastRan ==
    (carried /\ doneCount > 0) => response.sessionAttributes.previousIntent = lastRan

\* a rejected intent, in a carried session that handled "Yes" before
C2_Witness ==
    /\ carried
    /\ doneCount > 0
    /\ ~req.new
    /\ req.type = "IntentRequest"
    /\ req.intent = "No"
    /\ TheCall.handler.kind \in {"fail", "defaultActionFail"}
    /\ response.sessionAttributes.previousIntent = "Yes"

\* C3: when app.options.ids is non-empty and does not contain the request's
\* applicationId, dispatch throws the validation error: no handler and no
\* action predicate runs and `done` is not called, whatever the request is.
C3_InvalidIdThrows ==
    IdRefused =>
        /\ NothingRan
        /\ err = "ValidationError: application id"

C3_Witness ==
    /\ IdRefused
    /\ req.type = "IntentRequest"
    /\ req.intent \in IntentNames
    /\ app.actions # <<>>
    /\ NothingRan

\* C4: an IntentRequest naming an intent that is not in app.intents, and a
\* request of an unsupported type, throw: nothing goes through `done`, no
\* response is synthesized, no handler and no action predicate runs.
C4_UnknownThrows ==
    (InTurn /\ ~IdRefused) =>
        /\ (req.type = "IntentRequest" /\ req.intent \notin IntentNames) =>
              (NothingRan /\ err = "ValidationError: nonexistent intent")
        /\ req.type \notin RequestTypes =>
              (NothingRan /\ err = "ValidationError: unsupported request")

C4_Witness ==
    /\ InTurn
    /\ ~IdRefused
    /\ req.type = "IntentRequest"
    /\ req.intent \notin IntentNames
    /\ app.actions # <<>>
    /\ app.actions[1].from = Start
    /\ app.actions[1].to = Star
    /\ app.actions[1].if = "if"
    /\ req.new
    /\ NothingRan

\* C5: a new session drops the inbound attributes for {previousIntent:
\* "@start"} before the policy and the handler: the lookup starts from
\* "@start" and an accepted intent's response carries that intent's name.  In
\* a running session absent attributes become {} and present ones are used
\* as they are.
C5_SessionBootstrap ==
    (InTurn /\ ~IdRefused) =>
        /\ req.new =>
              /\ before = Start
              /\ attrs.k = Undef
              /\ attrs.previousIntent \in {Start, req.intent}
              /\ (KnownIntentTurn /\ app.actions # <<>>) =>
                    selected = SelectAction(app.actions, Start, req.intent)
              /\ (HandlerRan /\ TheCall.handler.kind = "intent" /\ doneCount > 0) =>
                    response.sessionAttributes.previousIntent = req.intent
        /\ (~req.new /\ req.inbound = NoObject) =>
              /\ before = Undef
              /\ attrs.k = Undef
        /\ (~req.new /\ req.inbound # NoObject) =>
              /\ before = req.inbound.previousIntent
              /\ attrs.k = req.inbound.k

\* a new session whose request carries stale attributes
C5_Witness ==
    /\ InTurn
    /\ req.new
    /\ req.inbound = ForeignAttrs
    /\ req.intent = "Yes"
    /\ HandlerRan
    /\ TheCall.handler = IntentHandler("Yes")
    /\ doneCount = 1
    /\ response.sessionAttributes = [previousIntent |-> "Yes", k |-> Undef]

\* C6: with no actions, an IntentRequest for a registered intent runs that
\* intent's handler and sets previousIntent to its name, whatever
\* previousIntent was; no fallback handler ever runs.
C6_NoActionsAlwaysAccept ==
    app.actions = <<>> =>
        /\ KnownIntentTurn =>
              /\ Len(invoked) = 1
              /\ TheCall.handler = IntentHandler(req.intent)
              /\ attrs.previousIntent = req.intent
              /\ doneCount > 0 => response.sessionAttributes.previousIntent = req.intent
        /\ \A i \in 1..Len(invoked) :
              invoked[i].handler.kind \notin {"defaultActionFail", "fail"}

\* previousIntent is absent, and the intent runs
C6_Witness ==
    /\ app.actions = <<>>
    /\ KnownIntentTurn
    /\ before = Undef
    /\ HandlerRan
    /\ doneCount = 1
    /\ response.sessionAttributes.previousIntent = "Yes"

\* C7: with actions, the lookup selects the first action from previousIntent
\* to the intent; failing that the first from previousIntent to "*"; failing
\* that the first from "*" to the intent; else none.
C7_LookupPriority ==
    LET first(f, t) ==
            LET hits == {i \in 1..Len(app.actions) :
                            app.actions[i].from = f /\ app.actions[i].to = t}
            IN  IF hits = {} THEN 0 ELSE CHOOSE i \in hits : \A j \in hits : i <= j
        exact   == first(before, req.intent)
        toAny   == first(before, Star)
        fromAny == first(Star, req.intent)
    IN  (KnownIntentTurn /\ app.actions # <<>>) =>
            selected = IF exact # 0 THEN exact
                       ELSE IF toAny # 0 THEN toAny
                       ELSE fromAny

\* the wildcard-target action comes after the wildcard-source one and wins
C7_Witness ==
    /\ KnownIntentTurn
    /\ Len(app.actions) = 2
    /\ app.actions[1].from = Star
    /\ app.actions[1].to = req.intent
    /\ app.actions[2].from = before
    /\ app.actions[2].to = Star
    /\ selected = 2

\* C8: with actions, a rejected transition runs the selected action's `fail`
\* when the action has one and defaultActionFail otherwise, never the intent's
\* handler, and previousIntent stays what it was when the policy was entered.
C8_RejectionKeepsState ==
    LET rejected == selected = 0 \/ (ifEvals # <<>> /\ ~ifEvals[1].result)
    IN  (KnownIntentTurn /\ app.actions # <<>> /\ rejected) =>
            /\ Len(invoked) = 1
            /\ ifEvals # <<>> => ifEvals[1].action = selected
            /\ TheCall.handler =
                  IF selected # 0 /\ app.actions[selected].fail
                  THEN ActionFail(selected) ELSE DefaultActionFail
            /\ attrs.previousIntent = before
            /\ doneCount > 0 => response.sessionAttributes.previousIntent = before

\* `if` returned false, `fail` answered with attributes of its own
C8_Witness ==
    /\ KnownIntentTurn
    /\ ifEvals # <<>>
    /\ ~ifEvals[1].result
    /\ TheCall.handler.kind = "fail"
    /\ TheCall.opts.attrs # NoObject
    /\ before = Start
    /\ doneCount = 1

\* C9: a handler declaring fewer than 3 parameters is synchronous and `done`
\* has its return value when dispatch returns; a handler declaring 3 or more
\* gets the completion callback in its last declared parameter.
C9_CallbackIsLastParameter ==
    HandlerRan =>
        /\ TheCall.arity < 3 =>
              /\ pc = "responded"
              /\ doneCount = 1
              /\ response = createResponse(TheCall.opts, TheCall.slots, attrs, app)
        /\ TheCall.arity >= 3 =>
              /\ TheCall.arity <= Len(TheCall.args)
              /\ TheCall.args[TheCall.arity] = "optionsReady"

\* C10: for an asynchronous handler `done` is invoked only by the completion
\* callback, once per call of it, and never if the handler never calls it.
C10_DoneOnlyInCallback ==
    /\ []((IsAsync /\ (TheCall.calls = 0 \/ ~ReachesCallback)) =>
            (doneCount = 0 /\ response = NoObject))
    /\ [][(IsAsync' /\ doneCount' > doneCount) =>
            /\ invoked' = invoked
            /\ pending.remaining > 0
            /\ pending'.remaining = pending.remaining - 1
            /\ doneCount' = doneCount + 1]_vars

\* the handler keeps the callback and never calls it
C10_Witness ==
    /\ IsAsync
    /\ ReachesCallback
    /\ TheCall.calls = 0
    /\ pc = "suspended"
    /\ doneCount = 0

\* C11: when the handler's options supply attrs, the response's
\* sessionAttributes are the supplied ones (no carried attribute survives)
\* with previousIntent set to the value the session attributes hold, never
\* the supplied one; without supplied attrs they are the carried attributes.
C11_SuppliedAttrsReplace ==
    doneCount > 0 =>
        IF TheCall.opts.kind = "object" /\ TheCall.opts.attrs # NoObject
        THEN /\ response.sessionAttributes.k = TheCall.opts.attrs.k
             /\ response.sessionAttributes.previousIntent = attrs.previousIntent
        ELSE response.sessionAttributes = attrs

\* the supplied attrs lack `k` and name another previousIntent
C11_Witness ==
    /\ doneCount = 1
    /\ TheCall.opts.kind = "object"
    /\ TheCall.opts.attrs = [previousIntent |-> "No", k |-> Undef]
    /\ attrs = [previousIntent |-> "Yes", k |-> "v"]
    /\ response.sessionAttributes = [previousIntent |-> "Yes", k |-> Undef]

\* C12: the response's version is app.options.version when that is present
\* and the fixed default otherwise: with no options, with options that have
\* no version and with options that have one, the version is a defined string.
C12_VersionDefined ==
    doneCount > 0 =>
        /\ response.version # Undef
        /\ response.version =
              IF app.options # NoObject /\ app.options.version # Undef
              THEN app.options.version ELSE "0.0.1"

\* C13: synthesizing the response has no side effects: the options value the
\* handler produced, its attrs and its card included, and the carried session
\* attributes are afterwards what they were before.
C13_NoSideEffects ==
    doneCount > 0 =>
        /\ produced = TheCall.opts
        /\ attrs = TheCall.attrs

\* C14: shouldEndSession is true when the handler's options are the string
\* shorthand or an object whose `end` is undefined, and is options.end itself
\* otherwise, also for false, 0, null and the empty string.
C14_ShouldEndSession ==
    doneCount > 0 =>
        response.shouldEndSession =
            IF TheCall.opts.kind = "string" \/ TheCall.opts.end = Undef
            THEN "true" ELSE TheCall.opts.end

\* `end` is 0
C14_Witness ==
    /\ doneCount = 1
    /\ TheCall.opts.kind = "object"
    /\ TheCall.opts.end = "0"
    /\ response.shouldEndSession = "0"

\* C15: outputSpeech is {type: "PlainText", text: options.text} when
\* options.ssml is falsy and {type: "SSML", ssml: options.text} otherwise;
\* reprompt is present only if options.reprompt was supplied, is built by the
\* same rule from options.reprompt and the same flag, and so has the type of
\* the speech.
C15_SpeechAndReprompt ==
    LET o == TheCall.opts
        falsy == o.kind = "string" \/ o.ssml \in {Undef, "false", "0", "null", ""}
        speech(t) == IF falsy
                     THEN [type |-> "PlainText", text |-> t, ssml |-> Undef]
                     ELSE [type |-> "SSML", text |-> Undef, ssml |-> t]
    IN  doneCount > 0 =>
            /\ response.outputSpeech = speech(o.text)
            /\ response.reprompt # NoObject =>
                  /\ o.kind = "object"
                  /\ o.reprompt # Undef
                  /\ response.reprompt = speech(o.reprompt)
                  /\ response.reprompt.type = response.outputSpeech.type

\* the flag is false, not undefined, and there is a reprompt
C15_Witness ==
    /\ doneCount = 1
    /\ TheCall.opts.kind = "object"
    /\ TheCall.opts.ssml = "false"
    /\ TheCall.opts.reprompt = "Again?"
    /\ response.outputSpeech.type = "PlainText"
    /\ response.reprompt.type = "PlainText"

\* C16: every dispatch that passes validation invokes exactly one handler,
\* once: onStart, onEnd, the requested intent's handler, the selected action's
\* `fail` or defaultActionFail; the intent's handler and a fallback are never
\* both invoked for one request.
C16_OneHandlerOnce ==
    LET kinds == {invoked[i].handler.kind : i \in 1..Len(invoked)}
        validated ==
            /\ InTurn
            /\ ~IdRefused
            /\ req.type \in RequestTypes
            /\ req.type = "IntentRequest" => req.intent \in IntentNames
    IN  /\ validated =>
              /\ Len(invoked) = 1
              /\ req.type = "LaunchRequest" => TheCall.handler = OnStart
              /\ req.type = "SessionEndedRequest" => TheCall.handler = OnEnd
              /\ req.type = "IntentRequest" =>
                    \/ TheCall.handler = IntentHandler(req.intent)
                    \/ TheCall.handler = DefaultActionFail
                    \/ selected # 0 /\ app.actions[selected].fail
                          /\ TheCall.handler = ActionFail(selected)
        /\ ~("intent" \in kinds /\ kinds \cap {"fail", "defaultActionFail"} # {})

\* a rejected intent answered synchronously by the action's `fail`
C16_Witness ==
    /\ KnownIntentTurn
    /\ Len(invoked) = 1
    /\ TheCall.handler.kind = "fail"
    /\ TheCall.arity < 3
    /\ doneCount = 1

\* C17: with actions, over the turns of a session whose attributes are carried
\* from each response into the next request, previousIntent changes from p to
\* q only if some action matches (p, q), (p, "*") or ("*", q) and the selected
\* action has no `if` or one that returned true; an intent no action matches
\* from the current state never becomes previousIntent.
C17_MovesAlongEdges ==
    LET p == before
        q == attrs.previousIntent
        edge(t) == \E i \in 1..Len(app.actions) :
                      \/ app.actions[i].from = p /\ app.actions[i].to = t
                      \/ app.actions[i].from = p /\ app.actions[i].to = Star
                      \/ app.actions[i].from = Star /\ app.actions[i].to = t
        passed == /\ selected # 0
                  /\ \/ app.actions[selected].if = "none"
                     \/ ifEvals # <<>> /\ ifEvals[1].result
    IN  (InTurn /\ HandlerRan /\ app.actions # <<>>) =>
            /\ (carried /\ ~req.new) => p = session.previousIntent
            /\ p # q => (q = req.intent /\ edge(q) /\ passed)
            /\ (req.type = "IntentRequest" /\ ~edge(req.intent) /\ req.intent # p) =>
                  q # req.intent
            /\ doneCount > 0 => response.sessionAttributes.previousIntent = q

\* the second turn of a session moves from "Yes" to "No" along ("Yes", "*")
C17_Witness ==
    /\ InTurn
    /\ carried
    /\ ~req.new
    /\ session.previousIntent = "Yes"
    /\ before = "Yes"
    /\ req.intent = "No"
    /\ selected # 0
    /\ app.actions[selected].from = "Yes"
    /\ app.actions[selected].to = Star
    /\ ifEvals # <<>>
    /\ doneCount = 1
    /\ response.sessionAttributes.previousIntent = "No"

\* C18: a rejection does not fall through: when the action selected at the
\* highest-priority tier has an `if` that returns false, the request is
\* answered by that action's `fail` or by defaultActionFail, also when a later
\* or lower-priority action matches with a passing or absent `if`; only the
\* selected action's predicate is evaluated.
C18_NoFallThrough ==
    LET hit(f, t) == {i \in 1..Len(app.actions) :
                         app.actions[i].from = f /\ app.actions[i].to = t}
        min(S) == CHOOSE i \in S : \A j \in S : i <= j
        top == IF hit(before, req.intent) # {} THEN min(hit(before, req.intent))
               ELSE IF hit(before, Star) # {} THEN min(hit(before, Star))
               ELSE IF hit(Star, req.intent) # {} THEN min(hit(Star, req.intent))
               ELSE 0
    IN  (KnownIntentTurn /\ app.actions # <<>>) =>
            /\ Len(ifEvals) <= 1
            /\ ifEvals # <<>> => ifEvals[1].action = top
            /\ (top # 0 /\ app.actions[top].if = "if") => Len(ifEvals) = 1
            /\ (ifEvals # <<>> /\ ~ifEvals[1].result) =>
                  /\ Len(invoked) = 1
                  /\ TheCall.handler = IF app.actions[top].fail
                                       THEN ActionFail(top) ELSE DefaultActionFail
                  /\ attrs.previousIntent = before

\* the exact action refuses while a wildcard action without `if` follows it
C18_Witness ==
    /\ KnownIntentTurn
    /\ Len(app.actions) = 2
    /\ app.actions[1].from = before
    /\ app.actions[1].to = req.intent
    /\ app.actions[2].from = Star
    /\ app.actions[2].to = req.intent
    /\ app.actions[2].if = "none"
    /\ ifEvals # <<>>
    /\ ifEvals[1].action = 1
    /\ ~ifEvals[1].result
    /\ TheCall.handler.kind \in {"fail", "defaultActionFail"}

\* C19: LaunchRequest and SessionEndedRequest bypass the transition policy:
\* they invoke onStart and onEnd with an empty slot mapping whatever the
\* actions and previousIntent are, and leave previousIntent alone apart from
\* the reset to "@start" of a new session.
C19_LaunchAndEndBypassPolicy ==
    LET entered == IF req.new THEN Start
                   ELSE IF req.inbound = NoObject THEN Undef
                   ELSE req.inbound.previousIntent
    IN  (InTurn /\ ~IdRefused /\ req.type \in {"LaunchRequest", "SessionEndedRequest"}) =>
            /\ Len(invoked) = 1
            /\ TheCall.handler = IF req.type = "LaunchRequest" THEN OnStart ELSE OnEnd
            /\ TheCall.slots = {}
            /\ selected = 0
            /\ ifEvals = <<>>
            /\ TheCall.attrs.previousIntent = entered
            /\ attrs.previousIntent = entered
            /\ (doneCount > 0 /\ TheCall.opts.attrs = NoObject) =>
                  response.sessionAttributes = attrs
            /\ doneCount > 0 => response.sessionAttributes.previousIntent = entered

\* a launch in the middle of a conversation, with an action out of "*"
C19_Witness ==
    /\ InTurn
    /\ req.type = "LaunchRequest"
    /\ ~req.new
    /\ app.actions # <<>>
    /\ app.actions[1].from = Star
    /\ before = "Yes"
    /\ HandlerRan
    /\ TheCall.handler = OnStart
    /\ doneCount = 1
    /\ response.sessionAttributes.previousIntent = "Yes"

\* C20: previousIntent is updated before the handler is invoked: an accepted
\* intent's handler is passed attrs whose previousIntent is its own name, the
\* `if` predicate and a fallback handler are passed the previous value, and
\* the update is in the session attributes while an asynchronous handler has
\* not called its completion callback yet.
C20_UpdatedBeforeHandler ==
    (KnownIntentTurn /\ HandlerRan) =>
        /\ TheCall.handler.kind = "intent" =>
              /\ TheCall.attrs.previousIntent = req.intent
              /\ attrs.previousIntent = req.intent
        /\ TheCall.handler.kind \in {"fail", "defaultActionFail"} =>
              /\ TheCall.attrs.previousIntent = before
              /\ attrs.previousIntent = before
        /\ \A i \in 1..Len(ifEvals) : ifEvals[i].attrs.previousIntent = before

\* `if` let the intent through and its asynchronous handler is pending
C20_Witness ==
    /\ KnownIntentTurn
    /\ ifEvals # <<>>
    /\ ifEvals[1].result
    /\ ifEvals[1].attrs.previousIntent = Start
    /\ TheCall.handler.kind = "intent"
    /\ TheCall.arity = 4
    /\ pc = "suspended"
    /\ pending.remaining > 0
    /\ doneCount = 0
    /\ attrs.previousIntent = "Yes"

====
